---------------------------- MODULE Spec2Model ----------------------------
(***************************************************************************)
(* Edge-device offloading simulation (mininet/mymininet.py).               *)
(*                                                                         *)
(* Numbers.  The program computes in floating point; the model computes    *)
(* the same quantities exactly, as scaled integers:                        *)
(*   bandwidth, delay      tenths of Mbit/s, tenths of ms                  *)
(*   loss                  percent                                         *)
(*   cpu, self_processing_power   hundredths                               *)
(*   rating                hundredths (the two decimals round() keeps)     *)
(*   performance_score     thousandths                                     *)
(*   score, self_score     units of 1/(10000*T), where T is the total load *)
(*                         the call reads (1 when that total is 0); T is   *)
(*                         the same for every score one call compares      *)
(*   time                  seconds                                         *)
(***************************************************************************)
EXTENDS Integers, Sequences, FiniteSets, TLC

\* ------------------------------------------------------------------ bounds
\* Number of cloud servers and of devices handed to create_network.
NumClouds == 2
NumDevices == 2
\* run_simulation's parameters: duration (minutes) and interval (seconds).
Duration == 160
Interval == 4740
\* Largest load counter and longest candidate list drawn for a direct call
\* of select_best_cloud.
MaxLoad == 1
MaxClouds == 3

\* ----------------------------------------------------- environment inputs
\* What measure_performance can report for one (device, cloud) pair.
Measurements ==
  { [bandwidth |-> 500,   delay |-> 400,  loss |-> 0],    \* healthy link
    [bandwidth |-> 0,     delay |-> 0,    loss |-> 100],  \* dead link: nothing parsed but the loss
    [bandwidth |-> 12,    delay |-> 2000, loss |-> 0],    \* 200 ms link
    [bandwidth |-> 16,    delay |-> 1510, loss |-> 0],    \* rating 0.996 before rounding
    [bandwidth |-> 10000, delay |-> 6510, loss |-> 0] }   \* fast, very slow to answer

\* Measurements drawn during a whole simulated run.
RunMeasurements ==
  { m \in Measurements : m.bandwidth \in {500, 0, 12} }

\* Seconds one device's probes of all clouds can take.
ProbeTimes == {30, 9600}

\* Device profiles create_network can draw: the lowest self_score (0.0) and
\* the highest (0.28) of its ranges.
WeakDevice ==
  [cpu |-> 50, bandwidth |-> 100, delay |-> 500, loss |-> 5, self_processing_power |-> 10]
StrongDevice ==
  [cpu |-> 10, bandwidth |-> 1000, delay |-> 10, loss |-> 0, self_processing_power |-> 30]
DeviceProfiles == {WeakDevice, StrongDevice}

\* The fleet of a simulated run: the two profiles in turn.
Fleet(n) == [i \in 1 .. n |-> IF i % 2 = 1 THEN WeakDevice ELSE StrongDevice]

\* Hours of direct calls: quiet (0.1), the threshold (0.7), busy (1.0).
EngineHours == {2, 13, 16}

\* ------------------------------------------------------------------- state
VARIABLES
  pc,              \* position of the main program
  outcome,         \* how the try block ended
  startCalls,      \* calls of net.start()
  stopCalls,       \* calls of net.stop()
  cloud_servers,   \* ids of the cloud servers, in list order
  devices,         \* the device profiles, in list order
  cloud_loads,     \* run_simulation's cloud_loads
  elapsed,         \* time.time() - start_time
  cycle_count,
  current_time,    \* elapsed time read at the start of the tick
  simulated_hour,
  devIdx,          \* position of `for device in devices`
  rows,            \* result rows written, counted per selected entity
  tickRows,        \* rows written in the current tick
  decision,        \* the last pass of the device loop: loads read, result
  call,            \* a direct call of select_best_cloud: arguments and result
  uniform          \* every call so far measured the same triple for all clouds

vars == << pc, outcome, startCalls, stopCalls, cloud_servers, devices,
           cloud_loads, elapsed, cycle_count, current_time, simulated_hour,
           devIdx, rows, tickRows, decision, call, uniform >>

\* --------------------------------------------------------- pure functions
Self == [kind |-> "self", id |-> 0]
None == [kind |-> "none", id |-> 0]
Cloud(i) == [kind |-> "cloud", id |-> i]

\* get_network_activity, in tenths.
get_network_activity(hour) ==
  << 2, 1, 1, 1, 2, 3, 4, 6, 8, 9, 9, 9,
     8, 7, 8, 9, 10, 10, 9, 8, 7, 6, 5, 3 >>[hour + 1]

Max(a, b) == IF a >= b THEN a ELSE b
Min(a, b) == IF a <= b THEN a ELSE b

\* round(x, 2) of a value given in thousandths, in hundredths.
Round2(k) ==
  LET q == k \div 10
      r == k % 10
  IN  IF r < 5 THEN q
      ELSE IF r > 5 THEN q + 1
      ELSE IF q % 2 = 0 THEN q ELSE q + 1

\* calculate_rating: 5*(0.2*bw/100 + 0.4*(1 - delay/100) + 0.4*(1 - loss/100)),
\* clamped to [0, 5] and rounded to two decimals.
calculate_rating(bandwidth, delay, loss) ==
  Round2(Max(0, Min(5000, bandwidth + 4000 - 2 * delay - 20 * loss)))

\* performance_score = bandwidth/100 - delay/100 - loss/10.
performance_score(bandwidth, delay, loss) == bandwidth - delay - 100 * loss

RECURSIVE SumLoads(_, _)
\* sum(cloud_loads.values())
SumLoads(loads, ids) ==
  IF ids = {} THEN 0
  ELSE LET i == CHOOSE x \in ids : TRUE
       IN  loads[i] + SumLoads(loads, ids \ {i})

\* The common denominator T of one call's scores.
ScoreDen(total_load) == IF total_load = 0 THEN 1 ELSE total_load

LoadScoreInverted(load, total_load) ==
  IF total_load = 0 THEN 1 ELSE load

\* load_score, times T.
LoadScore(load, total_load) ==
  IF total_load = 0 THEN 1 ELSE total_load - load

\* score of one cloud, times 10000*T.
Score(m, load, total_load, hour) ==
  LET p == performance_score(m.bandwidth, m.delay, m.loss)
      T == ScoreDen(total_load)
  IN  IF get_network_activity(hour) > 7
      THEN 4 * p * T + 6000 * LoadScore(load, total_load)
      ELSE 7 * p * T + 3000 * LoadScore(load, total_load)

\* self_score = self_processing_power - cpu*0.2, times 10000*T.
SelfScore(device, total_load) ==
  (100 * device.self_processing_power - 20 * device.cpu) * ScoreDen(total_load)

\* best_score starts at float('-inf').
NegInf == [inf |-> TRUE, v |-> 0]
Fin(x) == [inf |-> FALSE, v |-> x]

\* a > b, where b may be -inf.
Greater(a, b) == b.inf \/ a > b.v

IsBetterOrEqual(score, best_score) == best_score.inf \/ score >= best_score.v

\* `if score > best_score:` of the loop over the clouds.
IsBetter(score, best_score) == Greater(score, best_score)

SelfGateScoreOnly(self_score, best_score, best_rating) ==
  Greater(self_score, best_score)

SelfGateEither(self_score, best_score, best_rating) ==
  Greater(self_score, best_score) \/ best_rating < 100

\* `self_score > best_score and best_rating < 1.0`
SelfGate(self_score, best_score, best_rating) ==
  Greater(self_score, best_score) /\ best_rating < 100

InitBest ==
  [entity |-> None, score |-> NegInf, rating |-> 0,
   bandwidth |-> 0, delay |-> 0, loss |-> 0]

RECURSIVE ScanClouds(_, _, _, _, _, _)
\* The loop over cloud_servers, from position i with the running best.
ScanClouds(i, best, clouds, loads, hour, meas) ==
  IF i > Len(clouds) THEN best
  ELSE
    LET id == clouds[i]
        m == meas[i]
        rating == calculate_rating(m.bandwidth, m.delay, m.loss)
        total_load == SumLoads(loads, DOMAIN loads)
        score == Score(m, loads[id], total_load, hour)
        next == IF IsBetter(score, best.score)
                THEN [entity |-> Cloud(id), score |-> Fin(score), rating |-> rating,
                      bandwidth |-> m.bandwidth, delay |-> m.delay, loss |-> m.loss]
                ELSE best
    IN  ScanClouds(i + 1, next, clouds, loads, hour, meas)

\* select_best_cloud; meas[i] is what measure_performance returns for the
\* i-th cloud.  `best` is the cloud the loop ends with, before the self gate.
select_best_cloud(device, clouds, loads, hour, meas) ==
  LET best == ScanClouds(1, InitBest, clouds, loads, hour, meas)
      total_load == SumLoads(loads, DOMAIN loads)
      self_score == SelfScore(device, total_load)
      self_rating == calculate_rating(device.bandwidth, device.delay, device.loss)
  IN  IF SelfGate(self_score, best.score, best.rating)
      THEN [entity |-> Self, bandwidth |-> device.bandwidth, delay |-> device.delay,
            loss |-> device.loss, rating |-> self_rating, best |-> best.entity]
      ELSE [entity |-> best.entity, bandwidth |-> best.bandwidth, delay |-> best.delay,
            loss |-> best.loss, rating |-> best.rating, best |-> best.entity]

NoCall == [made |-> FALSE]
NoDecision == [made |-> FALSE]

CallRecord(device, clouds, loads, hour, meas) ==
  [made |-> TRUE, device |-> device, clouds |-> clouds, loads |-> loads,
   hour |-> hour, meas |-> meas,
   ret |-> select_best_cloud(device, clouds, loads, hour, meas)]

IsUniform(meas) == \A i, j \in DOMAIN meas : meas[i] = meas[j]

ZeroRows(clouds) ==
  [self |-> 0, cloud |-> [i \in {clouds[k] : k \in DOMAIN clouds} |-> 0]]

WriteRowCloudsOnly(rs, entity) ==
  IF entity.kind = "self" THEN rs ELSE [rs EXCEPT !.cloud[entity.id] = @ + 1]

\* writer.writerow(row): one more row for the selected entity.
WriteRow(rs, entity) ==
  IF entity.kind = "self"
  THEN [rs EXCEPT !.self = @ + 1]
  ELSE [rs EXCEPT !.cloud[entity.id] = @ + 1]

UpdateLoadsNever(loads, entity) == loads

UpdateLoadsAlways(loads, entity) ==
  IF entity.kind = "self"
  THEN [i \in DOMAIN loads |-> IF i = 1 THEN loads[i] + 1 ELSE loads[i]]
  ELSE [loads EXCEPT ![entity.id] = @ + 1]

\* `if best_entity == 'self': ... else: cloud_loads[best_entity.id] += 1`
UpdateLoads(loads, entity) ==
  IF entity.kind = "self"
  THEN loads
  ELSE [loads EXCEPT ![entity.id] = @ + 1]

LoopGuardInclusive(t) == t <= Duration * 60

\* `while time.time() - start_time < duration * 60`
LoopGuard(t) == t < Duration * 60

\* ------------------------------------------------------- the main program
Init ==
  /\ pc = "start"
  /\ outcome = "running"
  /\ startCalls = 0
  /\ stopCalls = 0
  /\ cloud_servers = [i \in 1 .. NumClouds |-> i]
  /\ devices = Fleet(NumDevices)
  /\ cloud_loads = << >>
  /\ elapsed = 0
  /\ cycle_count = 0
  /\ current_time = 0
  /\ simulated_hour = 0
  /\ devIdx = 0
  /\ rows = ZeroRows(cloud_servers)
  /\ tickRows = 0
  /\ decision = NoDecision
  /\ call = NoCall
  /\ uniform = TRUE

\* net.start() returns.
NetStartOk ==
  /\ pc = "start"
  /\ startCalls' = startCalls + 1
  /\ pc' = "run"
  /\ UNCHANGED << outcome, stopCalls, cloud_servers, devices, cloud_loads, elapsed,
                  cycle_count, current_time, simulated_hour, devIdx, rows,
                  tickRows, decision, call, uniform >>

\* net.start() raises: control goes to `except Exception`, then `finally`.
NetStartFails ==
  /\ pc = "start"
  /\ startCalls' = startCalls + 1
  /\ outcome' = "start_failed"
  /\ pc' = "finally"
  /\ UNCHANGED << stopCalls, cloud_servers, devices, cloud_loads, elapsed,
                  cycle_count, current_time, simulated_hour, devIdx, rows,
                  tickRows, decision, call, uniform >>

\* run_simulation up to the loop: start_time, cloud_loads, cycle_count.
RunSimulationBegin ==
  /\ pc = "run"
  /\ elapsed' = 0
  /\ cloud_loads' = [i \in {cloud_servers[k] : k \in DOMAIN cloud_servers} |-> 0]
  /\ cycle_count' = 0
  /\ pc' = "loop"
  /\ UNCHANGED << outcome, startCalls, stopCalls, cloud_servers, devices,
                  current_time, simulated_hour, devIdx, rows, tickRows, decision,
                  call, uniform >>

\* The loop test holds: the head of the loop body, up to the device loop.
\* The clock readings of the test and of current_time are taken as one.
TickStart ==
  /\ pc = "loop"
  /\ LoopGuard(elapsed)
  /\ cycle_count' = cycle_count + 1
  /\ current_time' = elapsed
  /\ simulated_hour' = (elapsed \div 600) % 24
  /\ devIdx' = 1
  /\ tickRows' = 0
  /\ pc' = IF Len(devices) = 0 THEN "sleep" ELSE "device"
  /\ UNCHANGED << outcome, startCalls, stopCalls, cloud_servers, devices,
                  cloud_loads, elapsed, rows, decision, call, uniform >>

\* The loop test fails: run_simulation returns, the try block ends.
LoopExit ==
  /\ pc = "loop"
  /\ ~LoopGuard(elapsed)
  /\ outcome' = "completed"
  /\ pc' = "finally"
  /\ UNCHANGED << startCalls, stopCalls, cloud_servers, devices, cloud_loads,
                  elapsed, cycle_count, current_time, simulated_hour, devIdx,
                  rows, tickRows, decision, call, uniform >>

\* One pass of `for device in devices`: the decision, the load update and
\* the row.  The probes answer meas and take dt seconds.
DeviceStepWith(meas, dt) ==
  /\ pc = "device"
  /\ LET ret == select_best_cloud(devices[devIdx], cloud_servers, cloud_loads,
                                  simulated_hour, meas)
     IN  /\ decision' = [made |-> TRUE, tick |-> cycle_count, device |-> devIdx,
                          hour |-> simulated_hour, loads |-> cloud_loads,
                          entity |-> ret.entity, best |-> ret.best]
         /\ cloud_loads' = UpdateLoads(cloud_loads, ret.entity)
         /\ rows' = WriteRow(rows, ret.entity)
         /\ uniform' = (uniform /\ IsUniform(meas))
         /\ elapsed' = elapsed + dt
  /\ tickRows' = tickRows + 1
  /\ devIdx' = devIdx + 1
  /\ pc' = IF devIdx = Len(devices) THEN "sleep" ELSE "device"
  /\ UNCHANGED << outcome, startCalls, stopCalls, cloud_servers, devices,
                  cycle_count, current_time, simulated_hour, call >>

DeviceStep ==
  \E meas \in [DOMAIN cloud_servers -> RunMeasurements], dt \in ProbeTimes :
    DeviceStepWith(meas, dt)

\* time.sleep(interval)
Sleep ==
  /\ pc = "sleep"
  /\ elapsed' = elapsed + Interval
  /\ pc' = "loop"
  /\ UNCHANGED << outcome, startCalls, stopCalls, cloud_servers, devices,
                  cloud_loads, cycle_count, current_time, simulated_hour,
                  devIdx, rows, tickRows, decision, call, uniform >>

InTry == pc \in {"start", "run", "loop", "device", "sleep"}

\* KeyboardInterrupt inside the try block: `except KeyboardInterrupt`.  It
\* is raised where the program stands, between two passes of the device
\* loop as well: one that arrives while a probe blocks ends the pass before
\* it has changed a counter or written a row.
Interrupt ==
  /\ InTry
  /\ outcome' = "interrupted"
  /\ pc' = "finally"
  /\ UNCHANGED << startCalls, stopCalls, cloud_servers, devices, cloud_loads,
                  elapsed, cycle_count, current_time, simulated_hour, devIdx,
                  rows, tickRows, decision, call, uniform >>

\* An exception inside run_simulation (a probe, the csv file):
\* `except Exception`.
RaiseError ==
  /\ pc \in {"run", "loop", "device", "sleep"}
  /\ outcome' = "error"
  /\ pc' = "finally"
  /\ UNCHANGED << startCalls, stopCalls, cloud_servers, devices, cloud_loads,
                  elapsed, cycle_count, current_time, simulated_hour, devIdx,
                  rows, tickRows, decision, call, uniform >>

NetStopSkipped ==
  /\ pc = "finally"
  /\ pc' = "done"
  /\ UNCHANGED << outcome, startCalls, stopCalls, cloud_servers, devices,
                  cloud_loads, elapsed, cycle_count, current_time,
                  simulated_hour, devIdx, rows, tickRows, decision, call, uniform >>

\* finally: net.stop()
NetStop ==
  /\ pc = "finally"
  /\ stopCalls' = stopCalls + 1
  /\ pc' = "done"
  /\ UNCHANGED << outcome, startCalls, cloud_servers, devices, cloud_loads,
                  elapsed, cycle_count, current_time, simulated_hour, devIdx,
                  rows, tickRows, decision, call, uniform >>

\* The device loop moves on to the next device.  Under Spec the steps that
\* do so are exactly the DeviceStep steps, and one is possible exactly when
\* pc = "device".
DeviceLoopAdvances == pc = "device" /\ devIdx' = devIdx + 1

Next ==
  \/ NetStartOk
  \/ NetStartFails
  \/ RunSimulationBegin
  \/ TickStart
  \/ LoopExit
  \/ DeviceStep
  \/ Sleep
  \/ Interrupt
  \/ RaiseError
  \/ NetStop

Spec == Init /\ [][Next]_vars

\* The interpreter keeps running the program and every blocking call
\* returns: each step of the program, once due, is taken.  Interrupts and
\* errors are not forced.
FairSpec ==
  /\ Spec
  /\ WF_vars(NetStartOk \/ NetStartFails)
  /\ WF_vars(RunSimulationBegin)
  /\ WF_vars(TickStart)
  /\ WF_vars(LoopExit)
  /\ WF_devIdx(DeviceLoopAdvances)
  /\ WF_vars(Sleep)
  /\ WF_vars(NetStop)

\* ------------------------------------------- select_best_cloud on its own
\* The arguments of a direct call: any candidate list up to MaxClouds (the
\* empty one too), any load counters up to MaxLoad, one device.
EngineInit ==
  /\ pc = "engine"
  /\ outcome = "running"
  /\ startCalls = 0
  /\ stopCalls = 0
  /\ \E n \in 0 .. MaxClouds :
       /\ cloud_servers = [i \in 1 .. n |-> i]
       /\ cloud_loads \in [1 .. n -> 0 .. MaxLoad]
  /\ devices \in [1 .. 1 -> DeviceProfiles]
  /\ elapsed = 0
  /\ cycle_count = 0
  /\ current_time = 0
  /\ simulated_hour \in EngineHours
  /\ devIdx = 1
  /\ rows = ZeroRows(cloud_servers)
  /\ tickRows = 0
  /\ decision = NoDecision
  /\ call = NoCall
  /\ uniform = TRUE

\* select_best_cloud(net, device, cloud_servers, cloud_loads, hour), with
\* the probes answering meas.
EngineCall ==
  /\ pc = "engine"
  /\ ~call.made
  /\ \E meas \in [DOMAIN cloud_servers -> Measurements] :
       call' = CallRecord(devices[1], cloud_servers, cloud_loads,
                          simulated_hour, meas)
  /\ UNCHANGED << pc, outcome, startCalls, stopCalls, cloud_servers, devices,
                  cloud_loads, elapsed, cycle_count, current_time,
                  simulated_hour, devIdx, rows, tickRows, decision, uniform >>

EngineNext == EngineCall

SpecEngine == EngineInit /\ [][EngineNext]_vars

\* ------------------------------------------------------------ the claims
\* Helpers of the statements below, over the arguments of a direct call.
CallLoad(i) == call.loads[call.clouds[i]]
CallTotal == SumLoads(call.loads, DOMAIN call.loads)
CallScore(i) == Score(call.meas[i], CallLoad(i), CallTotal, call.hour)
CallScores == [i \in DOMAIN call.clouds |-> CallScore(i)]
CallRating(i) ==
  calculate_rating(call.meas[i].bandwidth, call.meas[i].delay, call.meas[i].loss)
\* The position of the best-scoring cloud: no cloud scores higher, and no
\* earlier cloud scores as high.
BestIndex ==
  LET sc == CallScores
  IN  CHOOSE i \in DOMAIN sc :
        /\ \A j \in DOMAIN sc : sc[i] >= sc[j]
        /\ \A j \in DOMAIN sc : j < i => sc[i] > sc[j]
SelfBeats(i) == SelfScore(call.device, CallTotal) > CallScore(i)
NonEmptyCall == call.made /\ Len(call.clouds) > 0

\* C1: with a non-empty candidate list, select_best_cloud returns 'self'
\* exactly when self_score is strictly greater than the score of the
\* best-scoring cloud and that cloud's rating is strictly below 1.0; in every
\* other case it returns the best-scoring cloud.
C1_DoubleGate ==
  NonEmptyCall =>
    LET b == BestIndex
    IN  call.ret.entity =
          IF SelfBeats(b) /\ CallRating(b) < 100
          THEN Self
          ELSE Cloud(call.clouds[b])

\* A call that returns 'self' although the candidate list holds two clouds
\* or more.
C1_Witness ==
  /\ NonEmptyCall
  /\ Len(call.clouds) >= 2
  /\ call.ret.entity = Self
  /\ SelfBeats(BestIndex)
  /\ CallRating(BestIndex) < 100

\* C2: a call with an empty candidate list does not return 'self' (nor any
\* entity) as a normal result.
C2_EmptyNeverSelf ==
  (call.made /\ Len(call.clouds) = 0) => call.ret.entity.kind \notin {"self", "cloud"}

\* C3 as stated: if some scanned cloud has a rating >= 1.0, the call returns
\* a cloud and not 'self'.
C3_AnyCloudRating ==
  (NonEmptyCall /\ \E i \in DOMAIN call.clouds : CallRating(i) >= 100)
    => call.ret.entity.kind = "cloud"

\* C3 amended: if the best-scoring cloud has a rating >= 1.0, the call
\* returns that cloud and not 'self', whatever self_score is.
C3_BestCloudRating ==
  NonEmptyCall =>
    LET b == BestIndex
    IN  CallRating(b) >= 100 => call.ret.entity = Cloud(call.clouds[b])

\* self_score beats the best cloud's score, and the rating gate alone keeps
\* the cloud.
C3_Witness ==
  /\ NonEmptyCall
  /\ SelfBeats(BestIndex)
  /\ CallRating(BestIndex) >= 100
  /\ call.ret.entity.kind = "cloud"

\* C4 as stated: when all candidates yield the same measurement, the cloud
\* the loop ends with is the first candidate, whatever the loads.
C4_FirstCandidate ==
  (NonEmptyCall /\ IsUniform(call.meas)) => call.ret.best = Cloud(call.clouds[1])

\* C4 amended: when all candidates yield the same measurement, the cloud the
\* loop ends with is the first candidate in input order among those with
\* the smallest load counter.
C4_FirstLeastLoaded ==
  (NonEmptyCall /\ IsUniform(call.meas)) =>
    \E i \in DOMAIN call.clouds :
      /\ call.ret.best = Cloud(call.clouds[i])
      /\ \A j \in DOMAIN call.clouds : CallLoad(i) <= CallLoad(j)
      /\ \A j \in DOMAIN call.clouds : j < i => CallLoad(i) < CallLoad(j)

\* Equal measurements, two clouds tied on the smallest load, and the first
\* candidate carrying more: the loop ends with the earlier of the two.
C4_Witness ==
  /\ NonEmptyCall
  /\ IsUniform(call.meas)
  /\ \E i, j \in DOMAIN call.clouds :
       /\ 1 < i /\ i < j
       /\ CallLoad(i) = CallLoad(j)
       /\ CallLoad(i) < CallLoad(1)
       /\ call.ret.best = Cloud(call.clouds[i])

\* Helpers over the state of a run.
CloudIds == DOMAIN cloud_loads
RECURSIVE SumRows(_, _)
SumRows(f, ids) ==
  IF ids = {} THEN 0
  ELSE LET i == CHOOSE x \in ids : TRUE
       IN  f[i] + SumRows(f, ids \ {i})
CloudRows == SumRows(rows.cloud, DOMAIN rows.cloud)
PassOfDeviceLoop == pc = "device" /\ pc' \in {"device", "sleep"}
StartOfRun == pc = "run" /\ pc' = "loop"

C6_Teardown ==
  /\ <>(stopCalls = 1)
  /\ [](stopCalls <= 1)
  /\ [](stopCalls = 1 => outcome # "running")
  /\ [](pc = "done" => stopCalls = 1)
  /\ [](outcome = "start_failed" =>
          /\ cycle_count = 0
          /\ cloud_loads = << >>
          /\ ~decision.made
          /\ rows = ZeroRows(cloud_servers))

\* net.start() failed and net.stop() was called all the same.
C6_Witness ==
  /\ pc = "done"
  /\ outcome = "start_failed"
  /\ startCalls = 1
  /\ stopCalls = 1

C8_LoopTerminates ==
  /\ <>(pc \in {"finally", "done"})
  /\ [](pc \in {"device", "sleep"} => current_time < Duration * 60)
  /\ [][(pc = "loop" /\ elapsed >= Duration * 60) => pc' = "finally"]_vars

\* The loop ran out of time after two ticks or more.
C8_Witness ==
  /\ pc = "done"
  /\ outcome = "completed"
  /\ cycle_count >= 2
  /\ elapsed >= Duration * 60

\* C9: the k-th row of a tick is the k-th device's (and a tick that has no
\* row yet follows a complete one), and the counters the last decision read
\* are the rows written for each cloud before it, those of the earlier
\* devices of the same tick included.
C9_SequentialFeedback ==
  decision.made =>
    /\ tickRows > 0 => (decision.tick = cycle_count /\ decision.device = tickRows)
    /\ tickRows = 0 => (decision.tick = cycle_count - 1
                          /\ decision.device = Len(devices))
    /\ \A c \in CloudIds :
         decision.loads[c] + (IF decision.entity = Cloud(c) THEN 1 ELSE 0)
           = rows.cloud[c]

\* The second device of the first tick read the first device's increment.
C9_Witness ==
  /\ decision.made
  /\ decision.tick = 1
  /\ decision.device = 2
  /\ SumLoads(decision.loads, DOMAIN decision.loads) = 1

\* The first cloud in list order among those with the smallest counter.
FirstLeastLoaded(loads) ==
  CHOOSE c \in DOMAIN loads :
    /\ \A d \in DOMAIN loads : loads[c] <= loads[d]
    /\ \A d \in DOMAIN loads : d < c => loads[c] < loads[d]

\* C10: while every decision measures the same triple for all clouds, each
\* cloud considered best is the first one with the smallest counter, and
\* the counters of any two clouds differ by at most 1.
C10_Balance ==
  uniform =>
    /\ \A a, b \in CloudIds : cloud_loads[a] - cloud_loads[b] <= 1
    /\ decision.made => decision.best = Cloud(FirstLeastLoaded(decision.loads))

\* Equal measurements throughout, a busy hour, and a cloud chosen while the
\* counters were unequal.
C10_Witness ==
  /\ uniform
  /\ decision.made
  /\ get_network_activity(decision.hour) > 7
  /\ decision.entity.kind = "cloud"
  /\ \E a, b \in DOMAIN decision.loads : decision.loads[a] # decision.loads[b]
  /\ SumLoads(cloud_loads, CloudIds) >= NumClouds + 1

=============================================================================
